---- MODULE Spec2Model ----
(***************************************************************************)
(* Two-way thread-safe channels: src/src/util/channel.c.                   *)
(*                                                                         *)
(* One channel, two threads.  The master thread runs send_request,         *)
(* recv_reply, service_aq on its own control queue, signal_open and        *)
(* signal_worker_close; the worker thread runs recv_request, send_reply,   *)
(* worker_sleeping, service_aq on its own control queue,                   *)
(* worker_receive_open and worker_ack_close.                               *)
(*                                                                         *)
(* Granularity.  Every access to a queue shared by the two threads is a    *)
(* step of its own, so the other thread can run between the push of        *)
(* send_request / send_reply, the update of the sender's own counters,     *)
(* the sweep of the reverse queue and the posting of the control record.   *)
(* An update of fields that only the running thread reads is taken         *)
(* together with the shared access that follows it.                        *)
(* The build modelled is the one without __APPLE__ (channel.c:463-473).    *)
(***************************************************************************)
EXTENDS Integers, Sequences, FiniteSets, TLC

(***************************************************************************)
(* Program constants.                                                      *)
(***************************************************************************)
TO_WORKER == 0
FROM_WORKER == 1
IALPHA == 8

(***************************************************************************)
(* Bounds of the model.  ATOMIC_QUEUE_SIZE (1024 in channel.c:60),         *)
(* SIGNAL_INTERVAL (1000000 in channel.c:46) and the window of             *)
(* channel.c:485 (1000) are scaled down so that a full queue, an elapsed   *)
(* interval and a peer behind by more than the window are all reached.     *)
(* The window stays below the queue's size, as 1000 is below 1024.         *)
(***************************************************************************)
ATOMIC_QUEUE_SIZE == 2
CONTROL_QUEUE_SIZE == 2
SIGNAL_INTERVAL == 1
MaxSeq == 3
MaxTime == 1
MaxProc == 8
MaxClose == 2
MaxCloseSeq == 3
MaxOpen == 1
MaxSleep == 1

\* channel.c:485: the number of unacknowledged replies (1000) under which the
\* worker may skip the signal, scaled with the queue.
WINDOW == ATOMIC_QUEUE_SIZE - 1

(***************************************************************************)
(* fr_channel_signal_t and fr_channel_event_t.  The first five signals     *)
(* have the numbers of the events (channel.c:62-75).                       *)
(***************************************************************************)
FR_CHANNEL_ERROR == 0
FR_CHANNEL_DATA_READY_WORKER == 1
FR_CHANNEL_DATA_READY_RECEIVER == 2
FR_CHANNEL_OPEN == 3
FR_CHANNEL_CLOSE == 4
FR_CHANNEL_NOOP == 5
FR_CHANNEL_EMPTY == 6

FR_CHANNEL_SIGNAL_ERROR == FR_CHANNEL_ERROR
FR_CHANNEL_SIGNAL_DATA_TO_WORKER == FR_CHANNEL_DATA_READY_WORKER
FR_CHANNEL_SIGNAL_DATA_FROM_WORKER == FR_CHANNEL_DATA_READY_RECEIVER
FR_CHANNEL_SIGNAL_OPEN == FR_CHANNEL_OPEN
FR_CHANNEL_SIGNAL_CLOSE == FR_CHANNEL_CLOSE
FR_CHANNEL_SIGNAL_DATA_DONE_WORKER == FR_CHANNEL_SIGNAL_CLOSE + 1
FR_CHANNEL_SIGNAL_WORKER_SLEEPING == FR_CHANNEL_SIGNAL_DATA_DONE_WORKER + 1

VARIABLES
    active,          \* ch->active
    end,             \* ch->end[2]
    aq,              \* ch->end[e].aq: the data queue written by endpoint e
    aq_control,      \* ch->end[e].aq_control: the control queue endpoint e posts to
    worker_open,     \* the worker's view of the channel: "none", then "event" once its
                     \* dispatcher returned OPEN, then "created" once
                     \* ch->end[FROM_WORKER].control exists
    processing_time, \* ch->processing_time
    cpu_time,        \* ch->cpu_time
    now,             \* fr_time(): the monotonic clock
    mpc,             \* where the master thread is
    mcd,             \* the message of the master's send_request in progress
    m_reply,         \* *p_reply of the master's send_request in progress
    m_drains,        \* the master's caller follows the convention of channel.c:240-243
    m_drain,         \* the master's caller owes a recv_reply loop
    wpc,             \* where the worker thread is
    wcd,             \* the message of the worker's send_reply in progress
    w_request,       \* *p_request of the worker's send_reply in progress
    w_drain,         \* the worker's caller owes a recv_request loop
    out,             \* what the last step handed to its caller
    hist             \* history of the run, read by the properties only

vars == <<active, end, aq, aq_control, worker_open, processing_time, cpu_time, now,
          mpc, mcd, m_reply, m_drains, m_drain, wpc, wcd, w_request, w_drain, out, hist>>

master_vars == <<mpc, mcd, m_reply>>
worker_vars == <<wpc, wcd, w_request>>
caller_vars == <<m_drains, m_drain, w_drain>>

(***************************************************************************)
(* fr_channel_data_t: the fields the channel reads and writes.  NULL is    *)
(* the null pointer.                                                       *)
(***************************************************************************)
NULL == [sequence |-> 0, ack |-> 0, when |-> 0, processing_time |-> 0, cpu_time |-> 0]

fr_channel_data_t(when, pt, cpu) ==
    [sequence |-> 0, ack |-> 0, when |-> when, processing_time |-> pt, cpu_time |-> cpu]

(***************************************************************************)
(* What a step hands back to the caller of the operation it ends: the      *)
(* operation that returns, its return code, the message (a return value,   *)
(* or *p_reply / *p_request) and, for the dispatcher, the event.  A step   *)
(* that ends no operation hands back nothing.                              *)
(***************************************************************************)
Out(op, ret, cd, event) == [op |-> op, ret |-> ret, cd |-> cd, event |-> event]

FR_CHANNEL_NOEVENT == 0 - 1

Nothing == Out("", 0, NULL, FR_CHANNEL_NOEVENT)

(***************************************************************************)
(* fr_time_t is uint64_t: differences of timestamps wrap.  The word is     *)
(* scaled to 16 bits, far above every timestamp of the model.              *)
(***************************************************************************)
FR_TIME_MOD == 65536

TimeSub(a, b) == (a - b + FR_TIME_MOD) % FR_TIME_MOD

\* An average that gives the sample and the old value the same weight.
RTT_even(old, new) == (old + new) \div 2

\* An average that gives the sample the weight 1/8 and the old value 7/8.
RTT_weights_swapped(old, new) == (((IALPHA - 1) * old) + new) \div IALPHA

\* channel.c:236.
RTT(old, new) == (old + ((IALPHA - 1) * new)) \div IALPHA

(***************************************************************************)
(* fr_atomic_queue_push / fr_atomic_queue_pop on a queue of `size` slots.  *)
(***************************************************************************)
QueueFull(q, size) == Len(q) >= size

fr_channel_end_t ==
    [num_outstanding |-> 0, num_signals |-> 0, num_resignals |-> 0,
     sequence |-> 0, ack |-> 0, sequence_at_last_signal |-> 0,
     last_write |-> 0, last_read_other |-> 0, message_interval |-> 0,
     last_sent_signal |-> 0]

fr_channel_control_t(signal, ack) == [signal |-> signal, ack |-> ack]

(***************************************************************************)
(* History: what the properties need to remember of the run.               *)
(*   observed[e]  the sequence numbers recv returned to the owner of       *)
(*                endpoint e                                               *)
(*   asserts      no rad_assert has failed                                 *)
(*   failed_seq   the sequence number stamped by the last send_request if  *)
(*                it found the queue full, else 0                          *)
(*   closes[e]    calls of the close function that posts to endpoint e's   *)
(*                control queue                                            *)
(*   close_events[e]  CLOSE events returned from the control queue that    *)
(*                endpoint e posts to                                      *)
(*   opens        calls of signal_open                                     *)
(*   sleeps       calls of worker_sleeping that posted a record            *)
(***************************************************************************)
HistInit ==
    [observed |-> [e \in {TO_WORKER, FROM_WORKER} |-> << >>],
     asserts |-> TRUE,
     failed_seq |-> 0,
     closes |-> [e \in {TO_WORKER, FROM_WORKER} |-> 0],
     close_events |-> [e \in {TO_WORKER, FROM_WORKER} |-> 0],
     opens |-> 0, sleeps |-> 0]

(***************************************************************************)
(* fr_channel_create: both queues empty, all timers at "now", active.      *)
(***************************************************************************)
fr_channel_create ==
    /\ active = TRUE
    /\ end = [e \in {TO_WORKER, FROM_WORKER} |-> fr_channel_end_t]
    /\ aq = [e \in {TO_WORKER, FROM_WORKER} |-> << >>]
    /\ aq_control = [e \in {TO_WORKER, FROM_WORKER} |-> << >>]
    /\ worker_open = "none"
    /\ processing_time = 0
    /\ cpu_time = 0
    /\ now = 0
    /\ mpc = "idle" /\ mcd = NULL /\ m_reply = NULL /\ m_drain = FALSE
    /\ wpc = "idle" /\ wcd = NULL /\ w_request = NULL /\ w_drain = FALSE
    /\ out = Nothing
    /\ hist = HistInit

\* The callers follow no convention.
Init == fr_channel_create /\ m_drains = FALSE

(***************************************************************************)
(* fr_control_message_send on a control queue of `size` records: the       *)
(* record is appended, or the queue is full and the send fails.            *)
(***************************************************************************)
fr_control_message_send_rcode(q, size) == IF QueueFull(q, size) THEN -1 ELSE 0

fr_control_message_send(q, cc, size) == IF QueueFull(q, size) THEN q ELSE Append(q, cc)

(***************************************************************************)
(* fr_channel_data_ready (channel.c:221-233): the endpoint after the       *)
(* call, and the record it posts.                                          *)
(***************************************************************************)
fr_channel_data_ready_end(e, when) ==
    [e EXCEPT !.last_sent_signal = when, !.num_signals = @ + 1]

fr_channel_data_ready_cc(e, which) == fr_channel_control_t(which, e.ack)

(***************************************************************************)
(* fr_channel_recv_reply (channel.c:324-365).                              *)
(***************************************************************************)
fr_channel_recv_reply_cd(q) == IF q = << >> THEN NULL ELSE Head(q)

fr_channel_recv_reply_asserts(master, cd) ==
    /\ master.num_outstanding > 0
    /\ cd.sequence > master.ack
    /\ cd.sequence <= master.sequence
    /\ master.last_read_other <= cd.when

\* A reply that is not counted.
fr_channel_recv_reply_end_uncounted(master, cd) ==
    [master EXCEPT !.ack = cd.sequence, !.last_read_other = cd.when]

fr_channel_recv_reply_end(master, cd) ==
    [master EXCEPT !.num_outstanding = @ - 1,
                   !.ack = cd.sequence,
                   !.last_read_other = cd.when]

\* The whole of fr_channel_recv_reply, run on the master endpoint `master`, as
\* the part of a step that runs it: all but the value handed to the caller.
RecvReplyBody(master, h) ==
    LET cd == fr_channel_recv_reply_cd(aq[FROM_WORKER]) IN
    IF cd = NULL
    THEN /\ UNCHANGED <<aq, processing_time, cpu_time>>
         /\ end' = [end EXCEPT ![TO_WORKER] = master]
         /\ hist' = h
    ELSE /\ aq' = [aq EXCEPT ![FROM_WORKER] = Tail(@)]
         /\ processing_time' = RTT(processing_time, cd.processing_time)
         /\ cpu_time' = cd.cpu_time
         /\ end' = [end EXCEPT ![TO_WORKER] = fr_channel_recv_reply_end(master, cd)]
         /\ hist' = [h EXCEPT
                !.observed[TO_WORKER] = Append(@, cd.sequence),
                !.asserts = @ /\ fr_channel_recv_reply_asserts(master, cd)]

(***************************************************************************)
(* fr_channel_send_request (channel.c:254-315).                            *)
(***************************************************************************)
fr_channel_send_request_stamp(master, when) ==
    [fr_channel_data_t(when, 0, 0) EXCEPT !.sequence = master.sequence + 1,
                                          !.ack = master.ack]

\* channel.c:271: the push succeeds.
fr_channel_send_request_push(q) == ~QueueFull(q, ATOMIC_QUEUE_SIZE)

\* A request that is not counted.
fr_channel_send_request_end_uncounted(master, cd) ==
    [master EXCEPT !.sequence = cd.sequence,
                   !.message_interval = RTT(@, TimeSub(cd.when, master.last_write)),
                   !.last_write = cd.when]

\* channel.c:277-284.
fr_channel_send_request_end(master, cd) ==
    [master EXCEPT !.sequence = cd.sequence,
                   !.message_interval = RTT(@, TimeSub(cd.when, master.last_write)),
                   !.last_write = cd.when,
                   !.num_outstanding = @ + 1]

\* channel.c:305-308: return without signalling.
fr_channel_send_request_skip(master, reply) ==
    \/ reply = NULL
    \/ (reply # NULL /\ master.num_outstanding > 1)

\* channel.c:261-271: stamp the message and push it.  At most `maxseq` requests
\* are pushed.
SendRequest(when, maxseq) ==
    /\ mpc = "idle"
    /\ end[TO_WORKER].sequence < maxseq \/ ~fr_channel_send_request_push(aq[TO_WORKER])
    /\ when \in end[TO_WORKER].last_write .. now
    /\ LET cd == fr_channel_send_request_stamp(end[TO_WORKER], when) IN
       /\ mcd' = cd
       /\ IF fr_channel_send_request_push(aq[TO_WORKER])
          THEN /\ mpc' = "sr_pushed"
               /\ aq' = [aq EXCEPT ![TO_WORKER] = Append(@, cd)]
          ELSE /\ mpc' = "sr_full"
               /\ UNCHANGED aq
       /\ hist' = [hist EXCEPT
              !.failed_seq = IF fr_channel_send_request_push(aq[TO_WORKER])
                             THEN 0 ELSE cd.sequence]
    /\ out' = Nothing
    /\ UNCHANGED <<active, end, aq_control, worker_open, processing_time, cpu_time,
                   now, m_reply>>
    /\ UNCHANGED worker_vars

\* A full queue that is not noticed: the counters of channel.c:277-284 are
\* updated although nothing was pushed.
SendRequestFullCounted ==
    /\ mpc = "sr_full"
    /\ RecvReplyBody(fr_channel_send_request_end(end[TO_WORKER], mcd), hist)
    /\ out' = Out("send_request", -1, fr_channel_recv_reply_cd(aq[FROM_WORKER]), FR_CHANNEL_NOEVENT)
    /\ mpc' = "idle"
    /\ mcd' = NULL
    /\ UNCHANGED <<active, aq_control, worker_open, now, m_reply>>
    /\ UNCHANGED worker_vars

\* channel.c:273-274: the queue was full.
SendRequestFull ==
    /\ mpc = "sr_full"
    /\ RecvReplyBody(end[TO_WORKER], hist)
    /\ out' = Out("send_request", -1, fr_channel_recv_reply_cd(aq[FROM_WORKER]), FR_CHANNEL_NOEVENT)
    /\ mpc' = "idle"
    /\ mcd' = NULL
    /\ UNCHANGED <<active, aq_control, worker_open, now, m_reply>>
    /\ UNCHANGED worker_vars

\* A first packet that is sent without a signal.
SendRequestFirstUnsignalled(csize) ==
    /\ mpc = "sr_pushed"
    /\ LET master == fr_channel_send_request_end(end[TO_WORKER], mcd) IN
       /\ master.num_outstanding <= 1
       /\ end' = [end EXCEPT ![TO_WORKER] = master]
    /\ out' = Out("send_request", 0, NULL, FR_CHANNEL_NOEVENT)
    /\ hist' = [hist EXCEPT !.asserts = @ /\ end[TO_WORKER].last_write <= mcd.when]
    /\ mpc' = "idle"
    /\ mcd' = NULL
    /\ UNCHANGED <<active, aq, aq_control, worker_open, processing_time, cpu_time,
                   now, m_reply>>
    /\ UNCHANGED worker_vars

\* channel.c:277-290, 314: the master's own counters; this was the first packet.
SendRequestFirst(csize) ==
    /\ mpc = "sr_pushed"
    /\ LET master == fr_channel_send_request_end(end[TO_WORKER], mcd) IN
       /\ master.num_outstanding <= 1
       /\ end' = [end EXCEPT ![TO_WORKER] = fr_channel_data_ready_end(master, mcd.when)]
       /\ aq_control' = [aq_control EXCEPT ![TO_WORKER] =
              fr_control_message_send(@,
                  fr_channel_data_ready_cc(master, FR_CHANNEL_SIGNAL_DATA_TO_WORKER),
                  csize)]
       /\ out' = Out("send_request", fr_control_message_send_rcode(aq_control[TO_WORKER], csize),
                       NULL, FR_CHANNEL_NOEVENT)
    /\ hist' = [hist EXCEPT !.asserts = @ /\ end[TO_WORKER].last_write <= mcd.when]
    /\ mpc' = "idle"
    /\ mcd' = NULL
    /\ UNCHANGED <<active, aq, worker_open, processing_time, cpu_time, now, m_reply>>
    /\ UNCHANGED worker_vars

\* channel.c:277-284, 297-308: the master's own counters; look for a reply.
SendRequestRecv ==
    /\ mpc = "sr_pushed"
    /\ LET master == fr_channel_send_request_end(end[TO_WORKER], mcd)
           reply == fr_channel_recv_reply_cd(aq[FROM_WORKER])
       IN
       /\ master.num_outstanding > 1
       /\ RecvReplyBody(master,
              [hist EXCEPT !.asserts = @ /\ end[TO_WORKER].last_write <= mcd.when])
       /\ IF fr_channel_send_request_skip(end'[TO_WORKER], reply)
          THEN /\ mpc' = "idle"
               /\ mcd' = NULL
               /\ m_reply' = NULL
               /\ out' = Out("send_request", 0, reply, FR_CHANNEL_NOEVENT)
          ELSE /\ mpc' = "sr_signal"
               /\ m_reply' = reply
               /\ out' = Nothing
               /\ UNCHANGED mcd
    /\ UNCHANGED <<active, aq_control, worker_open, now>>
    /\ UNCHANGED worker_vars

\* channel.c:314: tell the worker that there is new data.
SendRequestSignal(csize) ==
    /\ mpc = "sr_signal"
    /\ end' = [end EXCEPT ![TO_WORKER] = fr_channel_data_ready_end(@, mcd.when)]
    /\ aq_control' = [aq_control EXCEPT ![TO_WORKER] =
           fr_control_message_send(@,
               fr_channel_data_ready_cc(end[TO_WORKER], FR_CHANNEL_SIGNAL_DATA_TO_WORKER),
               csize)]
    /\ out' = Out("send_request", fr_control_message_send_rcode(aq_control[TO_WORKER], csize),
                    m_reply, FR_CHANNEL_NOEVENT)
    /\ mpc' = "idle"
    /\ mcd' = NULL
    /\ m_reply' = NULL
    /\ UNCHANGED <<active, aq, worker_open, processing_time, cpu_time, now, hist>>
    /\ UNCHANGED worker_vars

\* fr_channel_recv_reply called by the master itself.
RecvReply ==
    /\ mpc = "idle"
    /\ RecvReplyBody(end[TO_WORKER], hist)
    /\ out' = Out("recv_reply", 0, fr_channel_recv_reply_cd(aq[FROM_WORKER]), FR_CHANNEL_NOEVENT)
    /\ UNCHANGED <<active, aq_control, worker_open, now, mpc, mcd, m_reply>>
    /\ UNCHANGED worker_vars

(***************************************************************************)
(* fr_channel_recv_request (channel.c:375-396).                            *)
(***************************************************************************)
\* A queue that hands out its newest message first.
fr_channel_recv_request_cd_newest(q) == IF q = << >> THEN NULL ELSE q[Len(q)]

fr_channel_recv_request_cd(q) == IF q = << >> THEN NULL ELSE Head(q)

fr_channel_recv_request_asserts(worker, cd) ==
    /\ cd.sequence > worker.ack
    /\ cd.sequence >= worker.sequence
    /\ worker.last_read_other <= cd.when

\* A recv_request that does not note the sequence number it has received.
fr_channel_recv_request_end_unacked(worker, cd) ==
    [worker EXCEPT !.num_outstanding = @ + 1,
                   !.last_read_other = cd.when]

fr_channel_recv_request_end(worker, cd) ==
    [worker EXCEPT !.num_outstanding = @ + 1,
                   !.ack = cd.sequence,
                   !.last_read_other = cd.when]

\* The whole of fr_channel_recv_request, run on the worker endpoint `worker`,
\* as the part of a step that runs it: all but the value handed to the caller.
RecvRequestBody(worker, h) ==
    LET cd == fr_channel_recv_request_cd(aq[TO_WORKER]) IN
    IF cd = NULL
    THEN /\ UNCHANGED aq
         /\ end' = [end EXCEPT ![FROM_WORKER] = worker]
         /\ hist' = h
    ELSE /\ aq' = [aq EXCEPT ![TO_WORKER] = Tail(@)]
         /\ end' = [end EXCEPT ![FROM_WORKER] = fr_channel_recv_request_end(worker, cd)]
         /\ hist' = [h EXCEPT
                !.observed[FROM_WORKER] = Append(@, cd.sequence),
                !.asserts = @ /\ fr_channel_recv_request_asserts(worker, cd)]

\* fr_channel_recv_request called by the worker itself.
RecvRequest ==
    /\ wpc = "idle"
    /\ worker_open = "created"
    /\ RecvRequestBody(end[FROM_WORKER], hist)
    /\ out' = Out("recv_request", 0, fr_channel_recv_request_cd(aq[TO_WORKER]), FR_CHANNEL_NOEVENT)
    /\ UNCHANGED <<active, aq_control, worker_open, processing_time, cpu_time,
                   now, wpc, wcd, w_request>>
    /\ UNCHANGED master_vars

(***************************************************************************)
(* fr_channel_send_reply (channel.c:414-494).                              *)
(***************************************************************************)
fr_channel_send_reply_stamp(worker, when, pt, cpu) ==
    [fr_channel_data_t(when, pt, cpu) EXCEPT !.sequence = worker.sequence + 1,
                                             !.ack = worker.ack]

\* channel.c:429: the push succeeds.
fr_channel_send_reply_push(q) == ~QueueFull(q, ATOMIC_QUEUE_SIZE)

\* A send_reply that does not count the request it has answered.
fr_channel_send_reply_end_uncounted(worker, cd) ==
    [worker EXCEPT !.sequence = cd.sequence,
                   !.message_interval = RTT(@, TimeSub(cd.when, worker.last_write)),
                   !.last_write = cd.when]

\* channel.c:434-442.
fr_channel_send_reply_end(worker, cd) ==
    [worker EXCEPT !.num_outstanding = @ - 1,
                   !.sequence = cd.sequence,
                   !.message_interval = RTT(@, TimeSub(cd.when, worker.last_write)),
                   !.last_write = cd.when]

\* A worker that never signals while it holds a request.
fr_channel_send_reply_skip_always(worker, master, when) == TRUE

\* channel.c:485-487: the reply needs no signal.
fr_channel_send_reply_skip(worker, master, when) ==
    /\ (worker.sequence - master.ack) <= WINDOW
    /\ \/ TimeSub(when, worker.last_read_other) < SIGNAL_INTERVAL
       \/ TimeSub(when, worker.last_sent_signal) < SIGNAL_INTERVAL

\* A worker that has no signal of its own for its last reply.
fr_channel_send_reply_which_data(worker) == FR_CHANNEL_SIGNAL_DATA_FROM_WORKER

\* channel.c:455-456, 493: the signal that send_reply posts.
fr_channel_send_reply_which(worker) ==
    IF worker.num_outstanding = 0
    THEN FR_CHANNEL_SIGNAL_DATA_DONE_WORKER
    ELSE FR_CHANNEL_SIGNAL_DATA_FROM_WORKER

\* channel.c:423-429: stamp the reply and push it.  The caller holds a request
\* it has not answered (the rad_assert of channel.c:434).
SendReply(when, pt, cpu) ==
    /\ wpc = "idle"
    /\ worker_open = "created"
    /\ end[FROM_WORKER].num_outstanding > 0
    /\ when \in end[FROM_WORKER].last_write .. now
    /\ LET cd == fr_channel_send_reply_stamp(end[FROM_WORKER], when, pt, cpu) IN
       /\ wcd' = cd
       /\ IF fr_channel_send_reply_push(aq[FROM_WORKER])
          THEN /\ wpc' = "rp_pushed"
               /\ aq' = [aq EXCEPT ![FROM_WORKER] = Append(@, cd)]
          ELSE /\ wpc' = "rp_full"
               /\ UNCHANGED aq
    /\ out' = Nothing
    /\ UNCHANGED <<active, end, aq_control, worker_open, processing_time, cpu_time,
                   now, w_request, hist>>
    /\ UNCHANGED master_vars

\* channel.c:430-431: the queue was full.
SendReplyFull ==
    /\ wpc = "rp_full"
    /\ RecvRequestBody(end[FROM_WORKER], hist)
    /\ out' = Out("send_reply", -1, fr_channel_recv_request_cd(aq[TO_WORKER]), FR_CHANNEL_NOEVENT)
    /\ wpc' = "idle"
    /\ wcd' = NULL
    /\ UNCHANGED <<active, aq_control, worker_open, processing_time, cpu_time,
                   now, w_request>>
    /\ UNCHANGED master_vars

\* channel.c:434-449: the worker's own counters; check the input channel.
SendReplySweep ==
    /\ wpc = "rp_pushed"
    /\ RecvRequestBody(fr_channel_send_reply_end(end[FROM_WORKER], wcd),
           [hist EXCEPT !.asserts = @ /\ end[FROM_WORKER].num_outstanding > 0
                                      /\ end[FROM_WORKER].last_write <= wcd.when])
    /\ w_request' = fr_channel_recv_request_cd(aq[TO_WORKER])
    /\ out' = Nothing
    /\ wpc' = "rp_decide"
    /\ UNCHANGED <<active, aq_control, worker_open, processing_time, cpu_time,
                   now, wcd>>
    /\ UNCHANGED master_vars

\* channel.c:455-493: signal the master, or skip the signal.
SendReplyDecide(csize) ==
    /\ wpc = "rp_decide"
    /\ LET worker == end[FROM_WORKER]
           master == end[TO_WORKER]
           which == fr_channel_send_reply_which(worker)
       IN
       IF worker.num_outstanding # 0 /\ fr_channel_send_reply_skip(worker, master, wcd.when)
       THEN /\ out' = Out("send_reply", 0, w_request, FR_CHANNEL_NOEVENT)
            /\ hist' = [hist EXCEPT !.asserts = @ /\ master.ack <= worker.sequence]
            /\ UNCHANGED <<end, aq_control>>
       ELSE /\ end' = [end EXCEPT ![FROM_WORKER] = fr_channel_data_ready_end(@, wcd.when)]
            /\ aq_control' = [aq_control EXCEPT ![FROM_WORKER] =
                   fr_control_message_send(@, fr_channel_data_ready_cc(worker, which),
                                           csize)]
            /\ out' = Out("send_reply",
                          fr_control_message_send_rcode(aq_control[FROM_WORKER], csize),
                          
                            w_request, FR_CHANNEL_NOEVENT)
            /\ hist' = [hist EXCEPT !.asserts =
                   @ /\ (worker.num_outstanding = 0 \/ master.ack <= worker.sequence)]
    /\ wpc' = "idle"
    /\ wcd' = NULL
    /\ w_request' = NULL
    /\ UNCHANGED <<active, aq, worker_open, processing_time, cpu_time, now>>
    /\ UNCHANGED master_vars

(***************************************************************************)
(* fr_channel_worker_sleeping (channel.c:507-528).                         *)
(***************************************************************************)
fr_channel_worker_sleeping_end(worker) ==
    [worker EXCEPT !.num_signals = @ + 1]

WorkerSleeping(csize) ==
    /\ wpc = "idle"
    /\ worker_open = "created"
    /\ end[FROM_WORKER].num_outstanding = 0 \/ hist.sleeps < MaxSleep
    /\ IF end[FROM_WORKER].num_outstanding = 0
       THEN /\ out' = Out("worker_sleeping", 0, NULL, FR_CHANNEL_NOEVENT)
            /\ UNCHANGED <<end, aq_control, hist>>
       ELSE /\ end' = [end EXCEPT ![FROM_WORKER] = fr_channel_worker_sleeping_end(@)]
            /\ aq_control' = [aq_control EXCEPT ![FROM_WORKER] =
                   fr_control_message_send(@,
                       fr_channel_control_t(FR_CHANNEL_SIGNAL_WORKER_SLEEPING,
                                            end[FROM_WORKER].ack), csize)]
            /\ out' = Out("worker_sleeping",
                          fr_control_message_send_rcode(aq_control[FROM_WORKER], csize),
                          NULL, FR_CHANNEL_NOEVENT)
            /\ hist' = [hist EXCEPT !.sleeps = @ + 1]
    /\ UNCHANGED <<active, aq, worker_open, processing_time, cpu_time, now>>
    /\ UNCHANGED worker_vars
    /\ UNCHANGED master_vars

(***************************************************************************)
(* fr_channel_service_aq (channel.c:545-623).                              *)
(***************************************************************************)
\* channel.c:571-576: the signals returned as they are.
fr_channel_service_aq_asis(cs) ==
    cs \in {FR_CHANNEL_SIGNAL_ERROR, FR_CHANNEL_SIGNAL_DATA_TO_WORKER,
            FR_CHANNEL_SIGNAL_DATA_FROM_WORKER, FR_CHANNEL_SIGNAL_OPEN,
            FR_CHANNEL_SIGNAL_CLOSE}

\* A dispatcher that maps both of the worker's signals to NOOP.
fr_channel_service_aq_ce_noop(cs) == FR_CHANNEL_NOOP

\* channel.c:583-589.
fr_channel_service_aq_ce(cs) ==
    IF cs = FR_CHANNEL_SIGNAL_DATA_DONE_WORKER
    THEN FR_CHANNEL_DATA_READY_RECEIVER
    ELSE FR_CHANNEL_NOOP

\* A dispatcher that never signals the worker again.
fr_channel_service_aq_behind_never(ack, e) == FALSE

\* channel.c:600-602: the worker is behind.
fr_channel_service_aq_behind(ack, e) == ack # e.sequence

\* A re-signal that is not counted.
fr_channel_service_aq_end_uncounted(e, when) == fr_channel_data_ready_end(e, when)

\* channel.c:613-619.
fr_channel_service_aq_end(e, when) ==
    fr_channel_data_ready_end([e EXCEPT !.num_resignals = @ + 1], when)

\* The master services its control queue, ch->end[FROM_WORKER].aq_control.
MasterServiceAq(csize) ==
    /\ mpc = "idle"
    /\ LET q == aq_control[FROM_WORKER] IN
       IF q = << >>
       THEN /\ out' = Out("service_aq", 0, NULL, FR_CHANNEL_EMPTY)
            /\ UNCHANGED <<end, aq_control, hist>>
       ELSE LET cc == Head(q) IN
            IF fr_channel_service_aq_asis(cc.signal)
            THEN /\ out' = Out("service_aq", 0, NULL, cc.signal)
                 /\ aq_control' = [aq_control EXCEPT ![FROM_WORKER] = Tail(@)]
                 /\ hist' = [hist EXCEPT !.close_events[FROM_WORKER] =
                        IF cc.signal = FR_CHANNEL_SIGNAL_CLOSE THEN @ + 1 ELSE @]
                 /\ UNCHANGED end
            ELSE IF ~fr_channel_service_aq_behind(cc.ack, end[TO_WORKER])
            THEN /\ out' = Out("service_aq", 0, NULL, fr_channel_service_aq_ce(cc.signal))
                 /\ aq_control' = [aq_control EXCEPT ![FROM_WORKER] = Tail(@)]
                 /\ UNCHANGED <<end, hist>>
            ELSE /\ end' = [end EXCEPT ![TO_WORKER] = fr_channel_service_aq_end(@, now)]
                 /\ aq_control' = [aq_control EXCEPT
                        ![FROM_WORKER] = Tail(@),
                        ![TO_WORKER] = fr_control_message_send(@,
                            fr_channel_data_ready_cc(end[TO_WORKER],
                                                     FR_CHANNEL_SIGNAL_DATA_TO_WORKER),
                            csize)]
                 /\ out' = Out("service_aq", 0, NULL,
                        IF fr_control_message_send_rcode(aq_control[TO_WORKER], csize) < 0
                        THEN FR_CHANNEL_ERROR
                        ELSE fr_channel_service_aq_ce(cc.signal))
                 /\ hist' = [hist EXCEPT !.asserts = @ /\ cc.ack < end[TO_WORKER].sequence]
    /\ UNCHANGED <<active, aq, worker_open, processing_time, cpu_time, now>>
    /\ UNCHANGED master_vars
    /\ UNCHANGED worker_vars

\* The worker services its control queue, ch->end[TO_WORKER].aq_control.  Only
\* the master posts to it, and it posts none of the worker's two signals
\* (channel.c:592 asserts it).
WorkerServiceAq ==
    /\ wpc = "idle"
    /\ LET q == aq_control[TO_WORKER] IN
       IF q = << >>
       THEN /\ out' = Out("service_aq", 0, NULL, FR_CHANNEL_EMPTY)
            /\ UNCHANGED <<aq_control, hist>>
       ELSE LET cc == Head(q) IN
            /\ aq_control' = [aq_control EXCEPT ![TO_WORKER] = Tail(@)]
            /\ out' = Out("service_aq", 0, NULL,
                            IF fr_channel_service_aq_asis(cc.signal)
                            THEN cc.signal
                            ELSE fr_channel_service_aq_ce(cc.signal))
            /\ hist' = [hist EXCEPT
                   !.close_events[TO_WORKER] =
                       IF cc.signal = FR_CHANNEL_SIGNAL_CLOSE THEN @ + 1 ELSE @,
                   !.asserts = @ /\ fr_channel_service_aq_asis(cc.signal)]
    /\ worker_open' = IF out'.event = FR_CHANNEL_OPEN /\ worker_open = "none"
                      THEN "event" ELSE worker_open
    /\ UNCHANGED <<active, end, aq, processing_time, cpu_time, now>>
    /\ UNCHANGED worker_vars
    /\ UNCHANGED master_vars

(***************************************************************************)
(* Lifecycle: fr_channel_signal_open (channel.c:759-768),                  *)
(* fr_channel_worker_receive_open (channel.c:796-814),                     *)
(* fr_channel_signal_worker_close (channel.c:682-697) and                  *)
(* fr_channel_worker_ack_close (channel.c:706-721).                        *)
(***************************************************************************)
SignalOpen(csize) ==
    /\ mpc = "idle"
    /\ hist.opens < MaxOpen
    /\ aq_control' = [aq_control EXCEPT ![TO_WORKER] =
           fr_control_message_send(@, fr_channel_control_t(FR_CHANNEL_SIGNAL_OPEN, 0),
                                   csize)]
    /\ out' = Out("signal_open", fr_control_message_send_rcode(aq_control[TO_WORKER], csize),
                    NULL, FR_CHANNEL_NOEVENT)
    /\ hist' = [hist EXCEPT !.opens = @ + 1]
    /\ UNCHANGED <<active, end, aq, worker_open, processing_time, cpu_time, now>>
    /\ UNCHANGED master_vars
    /\ UNCHANGED worker_vars

\* Called by the worker once its dispatcher has returned FR_CHANNEL_OPEN.
WorkerReceiveOpen ==
    /\ wpc = "idle"
    /\ worker_open # "none"
    /\ worker_open' = "created"
    /\ out' = Out("worker_receive_open",
                  IF worker_open = "created" THEN -1 ELSE 0,
                  NULL, FR_CHANNEL_NOEVENT)
    /\ UNCHANGED <<active, end, aq, aq_control, processing_time, cpu_time, now, hist>>
    /\ UNCHANGED worker_vars
    /\ UNCHANGED master_vars

\* A close that flips the flag.
fr_channel_close_active_flip(a) == ~a

\* channel.c:690, 714: the flag after a close.
fr_channel_close_active(a) == FALSE

\* channel.c:692-696, 716-720: the queue after the CLOSE record is sent.
fr_channel_close_send(q, which, csize) ==
    fr_control_message_send(q, fr_channel_control_t(FR_CHANNEL_SIGNAL_CLOSE, which), csize)

SignalWorkerClose(csize) ==
    /\ mpc = "idle"
    /\ hist.closes[TO_WORKER] < MaxClose
    /\ active' = fr_channel_close_active(active)
    /\ aq_control' = [aq_control EXCEPT ![TO_WORKER] =
           fr_channel_close_send(@, TO_WORKER, csize)]
    /\ out' = Out("signal_worker_close",
                  fr_control_message_send_rcode(aq_control[TO_WORKER], csize),
                  
                    NULL, FR_CHANNEL_NOEVENT)
    /\ hist' = [hist EXCEPT !.closes[TO_WORKER] = @ + 1]
    /\ UNCHANGED <<end, aq, worker_open, processing_time, cpu_time, now>>
    /\ UNCHANGED master_vars
    /\ UNCHANGED worker_vars

WorkerAckClose(csize) ==
    /\ wpc = "idle"
    /\ worker_open = "created"
    /\ hist.closes[FROM_WORKER] < MaxClose
    /\ active' = fr_channel_close_active(active)
    /\ aq_control' = [aq_control EXCEPT ![FROM_WORKER] =
           fr_channel_close_send(@, FROM_WORKER, csize)]
    /\ out' = Out("worker_ack_close", fr_control_message_send_rcode(aq_control[FROM_WORKER], csize),
                    NULL, FR_CHANNEL_NOEVENT)
    /\ hist' = [hist EXCEPT !.closes[FROM_WORKER] = @ + 1]
    /\ UNCHANGED <<end, aq, worker_open, processing_time, cpu_time, now>>
    /\ UNCHANGED worker_vars
    /\ UNCHANGED master_vars

\* fr_time() advances.
Tick ==
    /\ now < MaxTime
    /\ now' = now + 1
    /\ out' = Nothing
    /\ UNCHANGED <<active, end, aq, aq_control, worker_open, processing_time,
                   cpu_time, hist>>
    /\ UNCHANGED master_vars
    /\ UNCHANGED worker_vars

(***************************************************************************)
(* The two threads call the operations in any order.  Spec is the data     *)
(* path with the clock and worker_sleeping: every operation but the two    *)
(* closes.  The closes write only ch->active, which no operation reads,    *)
(* and post to the control queues; SpecClose below adds them.              *)
(***************************************************************************)
ProcTimes == {MaxProc}

\* A step of the program whose callers follow no discipline.
Free(A) == A /\ UNCHANGED caller_vars

Next ==
    \/ Free(\E when \in 0 .. MaxTime : SendRequest(when, MaxSeq))
    \/ Free(SendRequestFull)
    \/ Free(SendRequestFirst(CONTROL_QUEUE_SIZE))
    \/ Free(SendRequestRecv)
    \/ Free(SendRequestSignal(CONTROL_QUEUE_SIZE))
    \/ Free(RecvReply)
    \/ Free(MasterServiceAq(CONTROL_QUEUE_SIZE))
    \/ Free(SignalOpen(CONTROL_QUEUE_SIZE))
    \/ Free(\E when \in 0 .. MaxTime, pt \in ProcTimes : SendReply(when, pt, pt))
    \/ Free(SendReplyFull)
    \/ Free(SendReplySweep)
    \/ Free(SendReplyDecide(CONTROL_QUEUE_SIZE))
    \/ Free(RecvRequest)
    \/ Free(WorkerServiceAq)
    \/ Free(WorkerReceiveOpen)
    \/ Free(WorkerSleeping(CONTROL_QUEUE_SIZE))
    \/ Free(Tick)

Spec == Init /\ [][Next]_vars

(***************************************************************************)
(* The lifecycle: the data path, with both closes, at time 0.              *)
(***************************************************************************)
CloseNext ==
    \/ Free(SendRequest(0, MaxCloseSeq))
    \/ Free(SendRequestFull)
    \/ Free(SendRequestFirst(CONTROL_QUEUE_SIZE))
    \/ Free(SendRequestRecv)
    \/ Free(SendRequestSignal(CONTROL_QUEUE_SIZE))
    \/ Free(RecvReply)
    \/ Free(MasterServiceAq(CONTROL_QUEUE_SIZE))
    \/ Free(SignalOpen(CONTROL_QUEUE_SIZE))
    \/ Free(\E pt \in ProcTimes : SendReply(0, pt, pt))
    \/ Free(SendReplyFull)
    \/ Free(SendReplySweep)
    \/ Free(SendReplyDecide(CONTROL_QUEUE_SIZE))
    \/ Free(RecvRequest)
    \/ Free(WorkerServiceAq)
    \/ Free(WorkerReceiveOpen)
    \/ Free(SignalWorkerClose(CONTROL_QUEUE_SIZE))
    \/ Free(WorkerAckClose(CONTROL_QUEUE_SIZE))

SpecClose == Init /\ [][CloseNext]_vars

(***************************************************************************)
(* The ping: one request and its reply, which reports the processing time  *)
(* and the cpu time of PingSamples, under every interleaving of the two    *)
(* threads.  With one request the queues never fill and send_request       *)
(* never looks for a reply, so those steps are not part of the scenario.   *)
(***************************************************************************)
PingSamples == {100}

PingNext ==
    \/ Free(\E when \in 0 .. MaxTime : SendRequest(when, 1))
    \/ Free(SendRequestFirst(CONTROL_QUEUE_SIZE))
    \/ Free(RecvReply)
    \/ Free(MasterServiceAq(CONTROL_QUEUE_SIZE))
    \/ Free(SignalOpen(CONTROL_QUEUE_SIZE))
    \/ Free(\E when \in 0 .. MaxTime, pt \in PingSamples : SendReply(when, pt, pt))
    \/ Free(SendReplySweep)
    \/ Free(SendReplyDecide(CONTROL_QUEUE_SIZE))
    \/ Free(RecvRequest)
    \/ Free(WorkerServiceAq)
    \/ Free(WorkerReceiveOpen)
    \/ Free(Tick)

SpecPing == Init /\ [][PingNext]_vars

(***************************************************************************)
(* The estimator of ch->processing_time fed with one value: one exchange   *)
(* of a request and its reply after the other, at time 0, every reply      *)
(* reporting the same processing time and cpu time v, which the worker     *)
(* draws with its first reply.  ch->cpu_time holds v from the first reply  *)
(* received on.  A thread reads a queue only when there is something in    *)
(* it.                                                                     *)
(***************************************************************************)
MaxSample == 200
MaxEmaSeq == 6

\* The master sends once the worker has opened the channel and the last
\* exchange is over.
EmaSendRequest ==
    /\ worker_open = "created"
    /\ end[TO_WORKER].num_outstanding = 0
    /\ wpc = "idle"
    /\ aq_control = [e \in {TO_WORKER, FROM_WORKER} |-> << >>]
    /\ SendRequest(0, MaxEmaSeq)

EmaSendReply ==
    \E v \in 0 .. MaxSample :
        /\ end[FROM_WORKER].sequence = 0 \/ v = cpu_time
        /\ SendReply(0, v, v)

\* Neither thread polls an empty queue.
EmaRecvReply == aq[FROM_WORKER] # << >> /\ RecvReply

EmaRecvRequest == aq[TO_WORKER] # << >> /\ RecvRequest

EmaMasterServiceAq ==
    aq_control[FROM_WORKER] # << >> /\ MasterServiceAq(CONTROL_QUEUE_SIZE)

EmaWorkerServiceAq == aq_control[TO_WORKER] # << >> /\ WorkerServiceAq

EmaWorkerReceiveOpen == worker_open = "event" /\ WorkerReceiveOpen

EmaNext ==
    \/ Free(EmaSendRequest)
    \/ Free(SendRequestFirst(CONTROL_QUEUE_SIZE))
    \/ Free(EmaRecvReply)
    \/ Free(EmaMasterServiceAq)
    \/ Free(SignalOpen(CONTROL_QUEUE_SIZE))
    \/ Free(EmaSendReply)
    \/ Free(SendReplySweep)
    \/ Free(SendReplyDecide(CONTROL_QUEUE_SIZE))
    \/ Free(EmaRecvRequest)
    \/ Free(EmaWorkerServiceAq)
    \/ Free(EmaWorkerReceiveOpen)

SpecEma == Init /\ [][EmaNext]_vars

(***************************************************************************)
(* The data path over three instants.  The master stamps each request      *)
(* with the current time; the worker stamps a reply with any time from     *)
(* its last reply's on, which may be earlier than the time of the request  *)
(* it last received.                                                       *)
(***************************************************************************)
MaxClock == 2
MaxClockSeq == 3

ClockTick ==
    /\ now < MaxClock
    /\ now' = now + 1
    /\ out' = Nothing
    /\ UNCHANGED <<active, end, aq, aq_control, worker_open, processing_time,
                   cpu_time, hist>>
    /\ UNCHANGED master_vars
    /\ UNCHANGED worker_vars

ClockNext ==
    \/ Free(SendRequest(now, MaxClockSeq))
    \/ Free(SendRequestFull)
    \/ Free(SendRequestFirst(CONTROL_QUEUE_SIZE))
    \/ Free(SendRequestRecv)
    \/ Free(SendRequestSignal(CONTROL_QUEUE_SIZE))
    \/ Free(RecvReply)
    \/ Free(MasterServiceAq(CONTROL_QUEUE_SIZE))
    \/ Free(SignalOpen(CONTROL_QUEUE_SIZE))
    \/ Free(\E when \in 0 .. MaxClock, pt \in ProcTimes : SendReply(when, pt, pt))
    \/ Free(SendReplyFull)
    \/ Free(SendReplySweep)
    \/ Free(SendReplyDecide(CONTROL_QUEUE_SIZE))
    \/ Free(RecvRequest)
    \/ Free(WorkerServiceAq)
    \/ Free(WorkerReceiveOpen)
    \/ Free(ClockTick)

SpecClock == Init /\ [][ClockNext]_vars

(***************************************************************************)
(* The control plane: every operation that posts a control record, the     *)
(* closes and worker_sleeping included, and both dispatchers, at time 0.   *)
(* At most MaxDispatchSeq requests are sent, so the from-worker queue      *)
(* never fills and the step of channel.c:430-431 is not part of it.        *)
(***************************************************************************)
MaxDispatchSeq == 2

DispatchNext ==
    \/ Free(SendRequest(0, MaxDispatchSeq))
    \/ Free(SendRequestFull)
    \/ Free(SendRequestFirst(CONTROL_QUEUE_SIZE))
    \/ Free(SendRequestRecv)
    \/ Free(SendRequestSignal(CONTROL_QUEUE_SIZE))
    \/ Free(RecvReply)
    \/ Free(MasterServiceAq(CONTROL_QUEUE_SIZE))
    \/ Free(SignalOpen(CONTROL_QUEUE_SIZE))
    \/ Free(\E pt \in ProcTimes : SendReply(0, pt, pt))
    \/ Free(SendReplySweep)
    \/ Free(SendReplyDecide(CONTROL_QUEUE_SIZE))
    \/ Free(RecvRequest)
    \/ Free(WorkerServiceAq)
    \/ Free(WorkerReceiveOpen)
    \/ Free(WorkerSleeping(CONTROL_QUEUE_SIZE))
    \/ Free(SignalWorkerClose(CONTROL_QUEUE_SIZE))
    \/ Free(WorkerAckClose(CONTROL_QUEUE_SIZE))

SpecDispatch == Init /\ [][DispatchNext]_vars

(***************************************************************************)
(* The channel with callers that follow the calling conventions, at time   *)
(* 0, the time at which the worker elides the most signals.                *)
(*                                                                         *)
(* The worker's caller calls recv_request only in a loop that it starts    *)
(* when its dispatcher returns DATA_READY_WORKER and leaves when           *)
(* recv_request returns NULL.  The master's caller either follows no       *)
(* convention (m_drains = FALSE), or calls recv_reply in a loop until it   *)
(* returns NULL every time its dispatcher returns DATA_READY_RECEIVER and  *)
(* every time send_request hands back a reply (channel.c:240-243); it may  *)
(* call recv_reply at any other time too.  A caller in a loop calls        *)
(* nothing else before the loop ends.  The master opens the channel before *)
(* it sends, and the worker calls worker_receive_open, once, as soon as its *)
(* dispatcher has returned OPEN.  The control queues are large enough for  *)
(* every record the run posts, so no control send fails.                   *)
(***************************************************************************)
LiveControlSize == 8
MaxLiveSeq == 3

MasterOwes(o) ==
    \/ (o.op = "send_request" /\ o.cd # NULL)
    \/ (o.op = "service_aq" /\ o.event = FR_CHANNEL_DATA_READY_RECEIVER)

WorkerOwes(o) ==
    o.op = "service_aq" /\ o.event = FR_CHANNEL_DATA_READY_WORKER

\* A step of the master thread's caller, other than a recv_reply.
MasterCall(A) ==
    /\ (mpc = "idle" => ~m_drain)
    /\ A
    /\ m_drain' = (m_drains /\ MasterOwes(out'))
    /\ UNCHANGED <<m_drains, w_drain>>

\* The master's caller calls recv_reply: in its loop, or on its own.
MasterDrain ==
    /\ RecvReply
    /\ m_drain' = (m_drain /\ out'.cd # NULL)
    /\ UNCHANGED <<m_drains, w_drain>>

\* A step of the worker thread's caller, other than a recv_request and a
\* worker_receive_open.
WorkerCall(A) ==
    /\ (wpc = "idle" => ~w_drain)
    /\ worker_open # "event"
    /\ A
    /\ w_drain' = WorkerOwes(out')
    /\ UNCHANGED <<m_drains, m_drain>>

\* The worker's caller calls recv_request in its loop.
WorkerDrain ==
    /\ w_drain
    /\ RecvRequest
    /\ w_drain' = (out'.cd # NULL)
    /\ UNCHANGED <<m_drains, m_drain>>

LiveInit == fr_channel_create /\ m_drains \in BOOLEAN

LiveSendRequest == MasterCall(hist.opens > 0 /\ SendRequest(0, MaxLiveSeq))
LiveSendRequestFull == MasterCall(SendRequestFull)
LiveSendRequestFirst == MasterCall(SendRequestFirst(LiveControlSize))
LiveSendRequestRecv == MasterCall(SendRequestRecv)
LiveSendRequestSignal == MasterCall(SendRequestSignal(LiveControlSize))
LiveMasterServiceAq == MasterCall(MasterServiceAq(LiveControlSize))
LiveSignalOpen == MasterCall(SignalOpen(LiveControlSize))
LiveSendReply == WorkerCall(\E pt \in ProcTimes : SendReply(0, pt, pt))
LiveSendReplyFull == WorkerCall(SendReplyFull)
LiveSendReplySweep == WorkerCall(SendReplySweep)
LiveSendReplyDecide == WorkerCall(SendReplyDecide(LiveControlSize))
LiveWorkerServiceAq == WorkerCall(WorkerServiceAq)
LiveWorkerReceiveOpen ==
    /\ worker_open = "event"
    /\ WorkerReceiveOpen
    /\ UNCHANGED caller_vars
LiveWorkerSleeping == WorkerCall(WorkerSleeping(LiveControlSize))

LiveNext ==
    \/ LiveSendRequest
    \/ LiveSendRequestFull
    \/ LiveSendRequestFirst
    \/ LiveSendRequestRecv
    \/ LiveSendRequestSignal
    \/ MasterDrain
    \/ LiveMasterServiceAq
    \/ LiveSignalOpen
    \/ LiveSendReply
    \/ LiveSendReplyFull
    \/ LiveSendReplySweep
    \/ LiveSendReplyDecide
    \/ WorkerDrain
    \/ LiveWorkerServiceAq
    \/ LiveWorkerReceiveOpen
    \/ LiveWorkerSleeping

\* A thread inside an operation runs on; the master opens the channel and the
\* worker answers the OPEN; each thread dispatches the records of its control
\* queue and runs the loops it owes; the worker answers the requests it holds.
\* Nothing makes the master call send_request.  Weak fairness is asked of each
\* call but the two dispatchers: a thread that could make the call at every
\* moment from some moment on makes it.  A record waits in a control queue
\* while its thread is inside other calls, so the dispatchers are strongly
\* fair: a thread that is again and again free to dispatch a waiting record
\* dispatches it, and no thread retries a full queue for ever with records
\* waiting (channel.c:268-270: on a failed push the caller goes elsewhere).
LiveFairness ==
    /\ WF_vars(LiveSendRequestFull \/ LiveSendRequestFirst \/ LiveSendRequestRecv
                   \/ LiveSendRequestSignal)
    /\ WF_vars(LiveSendReplyFull \/ LiveSendReplySweep \/ LiveSendReplyDecide)
    /\ WF_vars(LiveSignalOpen)
    /\ WF_vars(LiveWorkerReceiveOpen)
    /\ SF_vars(LiveMasterServiceAq /\ aq_control[FROM_WORKER] # << >>)
    /\ SF_vars(LiveWorkerServiceAq /\ aq_control[TO_WORKER] # << >>)
    /\ WF_vars(MasterDrain /\ m_drain)
    /\ WF_vars(WorkerDrain)
    /\ WF_vars(LiveSendReply)

SpecLive == LiveInit /\ [][LiveNext]_vars /\ LiveFairness

(***************************************************************************)
(* Properties.                                                             *)
(***************************************************************************)
Range(q) == {q[i] : i \in 1 .. Len(q)}

\* C1: in every reachable state, the states between a thread's push and the
\* update of its own sequence counter included, each endpoint's ack is at most
\* the peer endpoint's sequence.
AckAtMostPeerSequence ==
    /\ end[FROM_WORKER].ack <= end[TO_WORKER].sequence
    /\ end[TO_WORKER].ack <= end[FROM_WORKER].sequence

\* C2: the k-th message returned by recv_request carries sequence k, whatever
\* the interleaving of successful and failing send_request calls, and the k-th
\* reply returned by recv_reply carries sequence k.
ObservedInOrder ==
    \A e \in {TO_WORKER, FROM_WORKER} :
        \A k \in 1 .. Len(hist.observed[e]) : hist.observed[e][k] = k

\* A send_request found the queue full, and then the worker received two
\* requests and the master one reply.
ObservedAfterFull ==
    /\ hist.failed_seq = 3
    /\ hist.observed[FROM_WORKER] = <<1, 2>>
    /\ hist.observed[TO_WORKER] = <<1>>

\* C3: a send_request that finds the to-worker queue full returns an error,
\* leaves the message out of the queue, posts no control record and leaves
\* sequence, last_write, message_interval and num_signals alone; ack and
\* num_outstanding change by one recv_reply sweep only, the reply handed back
\* is empty or the oldest message of the from-worker queue, and the next
\* send_request that finds room uses the sequence number of the failed call.
SendRequestQueueFullStep ==
    /\ (mpc = "idle" /\ mpc' = "sr_full") =>
           /\ Len(aq[TO_WORKER]) = ATOMIC_QUEUE_SIZE
           /\ UNCHANGED <<aq, aq_control, end>>
    /\ (mpc = "sr_full") => mcd \notin Range(aq'[TO_WORKER])
    /\ (mpc = "sr_full" /\ mpc' = "idle") =>
           /\ out'.ret < 0
           /\ aq'[TO_WORKER] = aq[TO_WORKER]
           /\ UNCHANGED aq_control
           /\ end'[TO_WORKER].sequence = end[TO_WORKER].sequence
           /\ end'[TO_WORKER].last_write = end[TO_WORKER].last_write
           /\ end'[TO_WORKER].message_interval = end[TO_WORKER].message_interval
           /\ end'[TO_WORKER].num_signals = end[TO_WORKER].num_signals
           /\ IF aq[FROM_WORKER] = << >>
              THEN /\ out'.cd = NULL
                   /\ end'[TO_WORKER] = end[TO_WORKER]
              ELSE /\ out'.cd = Head(aq[FROM_WORKER])
                   /\ aq'[FROM_WORKER] = Tail(aq[FROM_WORKER])
                   /\ end'[TO_WORKER].ack = out'.cd.sequence
                   /\ end'[TO_WORKER].num_outstanding = end[TO_WORKER].num_outstanding - 1
    /\ (mpc = "idle" /\ mpc' # "idle" /\ hist.failed_seq # 0) =>
           /\ mcd'.sequence = hist.failed_seq
           /\ (Len(aq[TO_WORKER]) < ATOMIC_QUEUE_SIZE =>
                   /\ mpc' = "sr_pushed"
                   /\ aq'[TO_WORKER] = Append(aq[TO_WORKER], mcd'))

SendRequestQueueFull == [][SendRequestQueueFullStep]_vars

\* A send_request has found the queue full and handed back a reply.
SendRequestFullWithReply ==
    /\ out.op = "send_request"
    /\ hist.failed_seq # 0
    /\ out.ret < 0
    /\ out.cd # NULL


\* C6: once the channel is inactive, a send_request or send_reply pushes no
\* message, changes no endpoint state and returns an error: the call of a send
\* on an inactive channel leaves both data queues and both endpoints as they
\* were and goes to its error return.
InactiveSendRejectedStep ==
    /\ (~active /\ mpc = "idle" /\ mpc' \in {"sr_pushed", "sr_full"}) =>
           (UNCHANGED <<aq, end>> /\ mpc' = "sr_full")
    /\ (~active /\ wpc = "idle" /\ wpc' \in {"rp_pushed", "rp_full"}) =>
           (UNCHANGED <<aq, end>> /\ wpc' = "rp_full")

InactiveSendRejected == [][InactiveSendRejectedStep]_vars

\* C7: close is idempotent per side: a call of signal_worker_close after the
\* first, and likewise of worker_ack_close, posts no control record and changes
\* no state, and the peer's dispatcher returns CLOSE once for that side.
CloseIdempotentStep ==
    \A e \in {TO_WORKER, FROM_WORKER} :
        /\ (hist.closes[e] >= 1 /\ hist'.closes[e] = hist.closes[e] + 1) =>
               UNCHANGED <<active, end, aq, aq_control>>
        /\ hist'.close_events[e] <= 1

CloseIdempotent == [][CloseIdempotentStep]_vars

\* C8: close does not preempt the messages in flight: a close leaves the data
\* queues alone, on an inactive channel recv_request and recv_reply still hand
\* out the oldest message of their queue with the usual update of ack and
\* num_outstanding, a message leaves a queue only by being handed to the
\* receiver, and active never becomes true again.
CloseKeepsInFlightStep ==
    /\ ~active => ~active'
    /\ active' # active => UNCHANGED <<aq, end>>
    /\ (~active /\ out'.op = "recv_request") =>
           IF aq[TO_WORKER] = << >>
           THEN out'.cd = NULL /\ UNCHANGED <<aq, end>>
           ELSE /\ out'.cd = Head(aq[TO_WORKER])
                /\ aq'[TO_WORKER] = Tail(aq[TO_WORKER])
                /\ end'[FROM_WORKER].ack = out'.cd.sequence
                /\ end'[FROM_WORKER].num_outstanding = end[FROM_WORKER].num_outstanding + 1
    /\ (~active /\ out'.op = "recv_reply") =>
           IF aq[FROM_WORKER] = << >>
           THEN out'.cd = NULL /\ UNCHANGED <<aq, end>>
           ELSE /\ out'.cd = Head(aq[FROM_WORKER])
                /\ aq'[FROM_WORKER] = Tail(aq[FROM_WORKER])
                /\ end'[TO_WORKER].ack = out'.cd.sequence
                /\ end'[TO_WORKER].num_outstanding = end[TO_WORKER].num_outstanding - 1
    /\ Len(aq'[TO_WORKER]) < Len(aq[TO_WORKER]) =>
           /\ aq'[TO_WORKER] = Tail(aq[TO_WORKER])
           /\ hist'.observed[FROM_WORKER] =
                  Append(hist.observed[FROM_WORKER], Head(aq[TO_WORKER]).sequence)
    /\ Len(aq'[FROM_WORKER]) < Len(aq[FROM_WORKER]) =>
           /\ aq'[FROM_WORKER] = Tail(aq[FROM_WORKER])
           /\ hist'.observed[TO_WORKER] =
                  Append(hist.observed[TO_WORKER], Head(aq[FROM_WORKER]).sequence)

CloseKeepsInFlight == [][CloseKeepsInFlightStep]_vars

\* Both sides have closed, and after that the master has received the second
\* reply while the worker had already received both requests.
DrainedAfterClose ==
    /\ ~active
    /\ hist.closes[TO_WORKER] >= 1
    /\ hist.closes[FROM_WORKER] >= 1
    /\ out.op = "recv_reply"
    /\ out.cd.sequence = 2
    /\ hist.observed[FROM_WORKER] = <<1, 2>>


\* C9: when no operation is in progress, both data queues are empty and the
\* worker has replied to every request it received, num_outstanding is 0 on
\* both endpoints.
Quiescent ==
    /\ mpc = "idle"
    /\ wpc = "idle"
    /\ aq[TO_WORKER] = << >>
    /\ aq[FROM_WORKER] = << >>
    /\ end[FROM_WORKER].sequence = Len(hist.observed[FROM_WORKER])

NoneOutstandingAtQuiescence ==
    Quiescent =>
        /\ end[TO_WORKER].num_outstanding = 0
        /\ end[FROM_WORKER].num_outstanding = 0

\* Quiescence after MaxSeq requests and MaxSeq replies.
QuiescentAfterAll ==
    /\ Quiescent
    /\ end[TO_WORKER].sequence = MaxSeq
    /\ Len(hist.observed[TO_WORKER]) = MaxSeq

\* C10 as stated: when the master is not inside an operation, its
\* num_outstanding is its sequence minus the peer endpoint's ack, and is not
\* negative.
OutstandingIsSequenceMinusPeerAck ==
    mpc = "idle" =>
        /\ end[TO_WORKER].num_outstanding =
               end[TO_WORKER].sequence - end[FROM_WORKER].ack
        /\ end[TO_WORKER].num_outstanding >= 0

\* C10, amended: when the master is not inside an operation, its
\* num_outstanding is its sequence minus its own ack, the sequence number of
\* the last reply it received; it is at least its sequence minus the peer
\* endpoint's ack, which is not negative.
OutstandingIsSequenceMinusOwnAck ==
    mpc = "idle" =>
        /\ end[TO_WORKER].num_outstanding =
               end[TO_WORKER].sequence - end[TO_WORKER].ack
        /\ end[TO_WORKER].num_outstanding >=
               end[TO_WORKER].sequence - end[FROM_WORKER].ack
        /\ end[TO_WORKER].sequence - end[FROM_WORKER].ack >= 0

\* The worker has received every request and the master is still waiting for
\* two replies.
OutstandingAboveUnreceived ==
    /\ mpc = "idle"
    /\ end[TO_WORKER].sequence = MaxSeq
    /\ end[FROM_WORKER].ack = MaxSeq
    /\ end[TO_WORKER].num_outstanding = 2


\* The request with sequence number k is in the to-worker queue.
Pushed(k) == \E i \in 1 .. Len(aq[TO_WORKER]) : aq[TO_WORKER][i].sequence = k

\* recv_request has returned the request with sequence number k.
Received(k) == \E i \in 1 .. Len(hist.observed[FROM_WORKER]) :
                   hist.observed[FROM_WORKER][i] = k

\* The reply with sequence number k is in the from-worker queue.
Replied(k) == \E i \in 1 .. Len(aq[FROM_WORKER]) : aq[FROM_WORKER][i].sequence = k

\* recv_reply has returned the reply with sequence number k.
ReplyReceived(k) == \E i \in 1 .. Len(hist.observed[TO_WORKER]) :
                        hist.observed[TO_WORKER][i] = k

\* C4 as stated: whenever the master calls recv_reply, if control sends never
\* fail, the threads dispatch their control records, the worker drains after
\* DATA_READY_WORKER and answers every request, and the master stops sending,
\* every pushed request is eventually returned by recv_request.
RequestLiveness ==
    \A k \in 1 .. MaxLiveSeq : Pushed(k) ~> Received(k)

\* C4, amended: under the same assumptions and a master that calls recv_reply
\* until it returns NULL every time its dispatcher returns DATA_READY_RECEIVER
\* and every time send_request hands back a reply, every pushed request is
\* eventually returned by recv_request.
RequestLivenessDrained ==
    \A k \in 1 .. MaxLiveSeq : (m_drains /\ Pushed(k)) ~> Received(k)

\* The master drains, and the worker has received three requests of which only
\* the first was signalled.
ReceivedUnsignalled ==
    /\ m_drains
    /\ hist.observed[FROM_WORKER] = <<1, 2, 3>>
    /\ end[TO_WORKER].num_signals = 1


\* A thread is idle when it is outside every operation and its caller has
\* nothing left to do: no loop to run, no OPEN to answer and, for the worker,
\* no request to answer.
MasterIdle == mpc = "idle" /\ ~m_drain

WorkerIdle ==
    /\ wpc = "idle"
    /\ ~w_drain
    /\ worker_open # "event"
    /\ end[FROM_WORKER].num_outstanding = 0

Stuck ==
    /\ aq[TO_WORKER] # << >> \/ aq[FROM_WORKER] # << >>
    /\ MasterIdle
    /\ WorkerIdle
    /\ aq_control[TO_WORKER] = << >>
    /\ aq_control[FROM_WORKER] = << >>

TimestampsNeverDecreaseStep ==
    \A e \in {TO_WORKER, FROM_WORKER} :
        /\ end'[e].last_write >= end[e].last_write
        /\ end'[e].last_read_other >= end[e].last_read_other
        /\ end'[e].last_sent_signal >= end[e].last_sent_signal

TimestampsNeverDecrease == [][TimestampsNeverDecreaseStep]_vars

\* C12: on a fresh channel, once the master has sent one request, the worker
\* has received it and replied with processing_time = 100 and cpu_time = 100,
\* and the master has received the reply, master.sequence = 1, master.ack = 1,
\* master.num_outstanding = 0 and ch.processing_time = 12.
PingDone ==
    /\ mpc = "idle"
    /\ wpc = "idle"
    /\ hist.observed[FROM_WORKER] = <<1>>
    /\ hist.observed[TO_WORKER] = <<1>>

PingCounters ==
    /\ end[TO_WORKER].sequence = 1
    /\ end[TO_WORKER].ack = 1
    /\ end[TO_WORKER].num_outstanding = 0

PingProcessingTimeTwelve == PingDone => (PingCounters /\ processing_time = 12)

\* C12, amended: after the ping the counters are as stated and
\* ch.processing_time = (0 + 7 * 100) / 8 = 87, with ch.cpu_time = 100.
PingProcessingTime ==
    PingDone => (PingCounters /\ processing_time = 87 /\ cpu_time = 100)

\* The ping is over, whichever thread opened the exchange last.
PingOver == PingDone /\ aq_control[FROM_WORKER] = << >> /\ now = MaxTime

\* The number of replies the master has received, and 8 to that power.
EmaReplies == Len(hist.observed[TO_WORKER])

RECURSIVE EmaPower(_)
EmaPower(k) == IF k = 0 THEN 1 ELSE IALPHA * EmaPower(k - 1)

EmaError ==
    IF processing_time >= cpu_time THEN processing_time - cpu_time
    ELSE cpu_time - processing_time

\* C13: starting from processing_time = 0, after k >= 1 received replies that
\* all carry processing_time = v, |ch.processing_time - v| <= v * (1/8)^k, for
\* every v in 0..200 and k in 1..6, in the integer arithmetic of the code.
EmaWithinPower ==
    EmaReplies >= 1 => EmaPower(EmaReplies) * EmaError <= cpu_time

\* C13, amended: after k >= 1 such replies ch.processing_time is v minus v/8^k
\* rounded up, so it is at most v and |ch.processing_time - v| < v * (1/8)^k + 1.
EmaWithinPowerRoundedUp ==
    EmaReplies >= 1 =>
        /\ processing_time <= cpu_time
        /\ EmaPower(EmaReplies) * (EmaError - 1) < cpu_time
        /\ EmaPower(EmaReplies) * EmaError >= cpu_time

\* Six replies of the largest value have been received: the estimate is one
\* below the value, and stays there.
EmaSettledBelow ==
    /\ EmaReplies = MaxEmaSeq
    /\ cpu_time = MaxSample
    /\ processing_time = MaxSample - 1

\* C14: every successful send_request that raises master.num_outstanding from
\* 0 to 1 returns no piggybacked reply, does not pop the from-worker queue, and
\* posts exactly one DATA_TO_WORKER control record, carrying ack = master.ack,
\* on the worker's control queue, whatever the timestamps are.
MasterAlwaysSignalsStep ==
    /\ (mpc = "idle" /\ mpc' = "sr_pushed") => aq'[FROM_WORKER] = aq[FROM_WORKER]
    /\ (/\ mpc = "sr_pushed"
        /\ mpc' = "idle"
        /\ end[TO_WORKER].num_outstanding = 0
        /\ out'.ret = 0)
       => /\ out'.op = "send_request"
          /\ out'.cd = NULL
          /\ end'[TO_WORKER].num_outstanding = 1
          /\ aq'[FROM_WORKER] = aq[FROM_WORKER]
          /\ aq_control'[TO_WORKER] =
                 Append(aq_control[TO_WORKER],
                        fr_channel_control_t(FR_CHANNEL_SIGNAL_DATA_TO_WORKER,
                                             end[TO_WORKER].ack))
          /\ aq_control'[FROM_WORKER] = aq_control[FROM_WORKER]

MasterAlwaysSignals == [][MasterAlwaysSignalsStep]_vars

\* A later message than the first went from none outstanding to one, and was
\* signalled with a reply waiting in the from-worker queue.
FirstSignalledPastReply ==
    /\ out.op = "send_request"
    /\ out.ret = 0
    /\ out.cd = NULL
    /\ end[TO_WORKER].num_outstanding = 1
    /\ end[TO_WORKER].sequence = 2
    /\ end[TO_WORKER].last_sent_signal = 1
    /\ aq[FROM_WORKER] # << >>

\* The control queue q after exactly one record with signal `which` was posted
\* to p.
PostedOne(p, q, which) ==
    /\ Len(q) = Len(p) + 1
    /\ SubSeq(q, 1, Len(p)) = p
    /\ q[Len(q)].signal = which

\* C15: every successful send_reply whose decrement brings
\* worker.num_outstanding to 0 posts exactly one DATA_DONE_WORKER control
\* record to the master before it returns, whatever the to-worker data queue
\* contains at that moment.
WorkerDoneAtDecrementStep ==
    (/\ wpc = "rp_decide"
     /\ wpc' = "idle"
     /\ end[FROM_WORKER].num_outstanding = (IF w_request = NULL THEN 0 ELSE 1)
     /\ out'.ret = 0)
    => /\ PostedOne(aq_control[FROM_WORKER], aq_control'[FROM_WORKER],
                    FR_CHANNEL_SIGNAL_DATA_DONE_WORKER)
       /\ aq_control'[TO_WORKER] = aq_control[TO_WORKER]

WorkerDoneAtDecrement == [][WorkerDoneAtDecrementStep]_vars

\* C15, amended: every successful send_reply that leaves
\* worker.num_outstanding at 0 once it has swept the to-worker queue posts
\* exactly one DATA_DONE_WORKER control record, carrying ack = worker.ack, to
\* the master before it returns, whatever the to-worker queue holds by then.
WorkerDoneAfterSweepStep ==
    (/\ wpc = "rp_decide"
     /\ wpc' = "idle"
     /\ end[FROM_WORKER].num_outstanding = 0
     /\ out'.ret = 0)
    => /\ out'.op = "send_reply"
       /\ out'.cd = NULL
       /\ aq_control'[FROM_WORKER] =
              Append(aq_control[FROM_WORKER],
                     fr_channel_control_t(FR_CHANNEL_SIGNAL_DATA_DONE_WORKER,
                                          end[FROM_WORKER].ack))
       /\ aq_control'[TO_WORKER] = aq_control[TO_WORKER]
       /\ aq' = aq

WorkerDoneAfterSweep == [][WorkerDoneAfterSweepStep]_vars

\* The worker has posted DATA_DONE_WORKER for its last reply with a request
\* waiting in the to-worker queue, pushed after the sweep.
DoneSignalledPastRequest ==
    /\ out.op = "send_reply"
    /\ out.ret = 0
    /\ end[FROM_WORKER].num_outstanding = 0
    /\ aq_control[FROM_WORKER] # << >>
    /\ aq_control[FROM_WORKER][Len(aq_control[FROM_WORKER])].signal =
           FR_CHANNEL_SIGNAL_DATA_DONE_WORKER
    /\ aq[TO_WORKER] # << >>

\* C16: whenever a successful send_request (resp. send_reply) returns with the
\* sender more than the window (1000 messages) ahead of what the peer has
\* acknowledged, sequence - peer_ack > 1000, that call has posted a data-ready
\* control record: DATA_TO_WORKER, resp. DATA_FROM_WORKER or DATA_DONE_WORKER.
WindowRuleMasterStep ==
    (/\ mpc \in {"sr_pushed", "sr_signal"}
     /\ mpc' = "idle"
     /\ out'.ret = 0
     /\ end'[TO_WORKER].sequence - end'[FROM_WORKER].ack > WINDOW)
    => PostedOne(aq_control[TO_WORKER], aq_control'[TO_WORKER],
                 FR_CHANNEL_SIGNAL_DATA_TO_WORKER)

WindowRuleWorkerStep ==
    (/\ wpc = "rp_decide"
     /\ wpc' = "idle"
     /\ out'.ret = 0
     /\ end'[FROM_WORKER].sequence - end'[TO_WORKER].ack > WINDOW)
    => \/ PostedOne(aq_control[FROM_WORKER], aq_control'[FROM_WORKER],
                    FR_CHANNEL_SIGNAL_DATA_FROM_WORKER)
       \/ PostedOne(aq_control[FROM_WORKER], aq_control'[FROM_WORKER],
                    FR_CHANNEL_SIGNAL_DATA_DONE_WORKER)

WindowRule == [][WindowRuleMasterStep /\ WindowRuleWorkerStep]_vars

\* C17: in the build without the __APPLE__ fast path, a successful send_reply
\* that ends with worker.num_outstanding > 0 posts DATA_FROM_WORKER if and only
\* if worker.sequence - master.ack > 1000 (the window), or both
\* when - worker.last_read_other >= SIGNAL_INTERVAL and
\* when - worker.last_sent_signal >= SIGNAL_INTERVAL, the subtractions being
\* exact differences of the timestamps; otherwise it posts nothing and leaves
\* num_signals and last_sent_signal unchanged.
WorkerElisionExactStep ==
    (/\ wpc = "rp_decide"
     /\ wpc' = "idle"
     /\ end[FROM_WORKER].num_outstanding > 0
     /\ out'.ret = 0)
    => LET worker == end[FROM_WORKER]
           master == end[TO_WORKER]
           when == wcd.when
       IN
       IF \/ worker.sequence - master.ack > WINDOW
          \/ /\ when - worker.last_read_other >= SIGNAL_INTERVAL
             /\ when - worker.last_sent_signal >= SIGNAL_INTERVAL
       THEN PostedOne(aq_control[FROM_WORKER], aq_control'[FROM_WORKER],
                      FR_CHANNEL_SIGNAL_DATA_FROM_WORKER)
       ELSE /\ aq_control' = aq_control
            /\ end'[FROM_WORKER].num_signals = worker.num_signals
            /\ end'[FROM_WORKER].last_sent_signal = worker.last_sent_signal

WorkerElisionExact == [][WorkerElisionExactStep]_vars

\* The master's dispatcher pops a DATA_DONE_WORKER or WORKER_SLEEPING record.
MasterDispatchesWorkerSignal ==
    /\ aq_control[FROM_WORKER] # << >>
    /\ aq_control'[FROM_WORKER] = Tail(aq_control[FROM_WORKER])
    /\ Head(aq_control[FROM_WORKER]).signal \in
           {FR_CHANNEL_SIGNAL_DATA_DONE_WORKER, FR_CHANNEL_SIGNAL_WORKER_SLEEPING}

\* C18: when the master's service_aq dispatches a DATA_DONE_WORKER or
\* WORKER_SLEEPING record, record.ack <= to_worker.sequence; if they are equal
\* no control record is posted and num_resignals is unchanged; if record.ack is
\* less, num_resignals increases by exactly 1 and exactly one DATA_TO_WORKER
\* record is posted to the worker; the mapped event is then returned.
ResignalRuleStep ==
    MasterDispatchesWorkerSignal =>
        LET cc == Head(aq_control[FROM_WORKER])
            e == end[TO_WORKER]
        IN
        /\ cc.ack <= e.sequence
        /\ out'.op = "service_aq"
        /\ out'.event = fr_channel_service_aq_ce(cc.signal)
        /\ cc.ack = e.sequence =>
               /\ aq_control'[TO_WORKER] = aq_control[TO_WORKER]
               /\ end'[TO_WORKER].num_resignals = e.num_resignals
        /\ cc.ack < e.sequence =>
               /\ end'[TO_WORKER].num_resignals = e.num_resignals + 1
               /\ PostedOne(aq_control[TO_WORKER], aq_control'[TO_WORKER],
                            FR_CHANNEL_SIGNAL_DATA_TO_WORKER)

ResignalRule == [][ResignalRuleStep]_vars

\* C18, amended: as above, but when record.ack is less and the control send
\* fails, num_resignals still increases by 1, no record is posted and the
\* dispatcher returns ERROR in place of the mapped event.
ResignalRuleUnlessSendFailsStep ==
    MasterDispatchesWorkerSignal =>
        LET cc == Head(aq_control[FROM_WORKER])
            e == end[TO_WORKER]
            rcode == fr_control_message_send_rcode(aq_control[TO_WORKER],
                                                   CONTROL_QUEUE_SIZE)
        IN
        /\ cc.ack <= e.sequence
        /\ out'.op = "service_aq"
        /\ cc.ack = e.sequence =>
               /\ aq_control'[TO_WORKER] = aq_control[TO_WORKER]
               /\ end'[TO_WORKER] = e
               /\ out'.event = fr_channel_service_aq_ce(cc.signal)
        /\ cc.ack < e.sequence =>
               /\ end'[TO_WORKER].num_resignals = e.num_resignals + 1
               /\ end'[TO_WORKER].num_signals = e.num_signals + 1
               /\ IF rcode < 0
                  THEN /\ aq_control'[TO_WORKER] = aq_control[TO_WORKER]
                       /\ out'.event = FR_CHANNEL_ERROR
                  ELSE /\ aq_control'[TO_WORKER] =
                              Append(aq_control[TO_WORKER],
                                     fr_channel_control_t(
                                         FR_CHANNEL_SIGNAL_DATA_TO_WORKER, e.ack))
                       /\ out'.event = fr_channel_service_aq_ce(cc.signal)

ResignalRuleUnlessSendFails == [][ResignalRuleUnlessSendFailsStep]_vars

\* The master has signalled the worker again on a WORKER_SLEEPING record, at
\* time 1.
ResignalledOnSleeping ==
    /\ out.op = "service_aq"
    /\ out.event = FR_CHANNEL_NOOP
    /\ end[TO_WORKER].num_resignals = 1
    /\ end[TO_WORKER].last_sent_signal = 1
    /\ aq_control[TO_WORKER] # << >>
    /\ aq_control[TO_WORKER][Len(aq_control[TO_WORKER])].signal =
           FR_CHANNEL_SIGNAL_DATA_TO_WORKER

\* The dispatcher pops the head of control queue i.
DispatchPops(i) ==
    /\ aq_control[i] # << >>
    /\ aq_control'[i] = Tail(aq_control[i])

\* Control queue i loses its head, gains one record at its tail, or stays.
ControlQueueFifoStep(i) ==
    \/ aq_control'[i] = aq_control[i]
    \/ DispatchPops(i)
    \/ /\ Len(aq_control'[i]) = Len(aq_control[i]) + 1
       /\ SubSeq(aq_control'[i], 1, Len(aq_control[i])) = aq_control[i]

\* A call of service_aq that pops nothing returns EMPTY and changes nothing.
DispatchEmptyStep ==
    (/\ out' # out
     /\ out'.op = "service_aq"
     /\ aq_control' = aq_control)
    => /\ out'.event = FR_CHANNEL_EMPTY
       /\ \E i \in {TO_WORKER, FROM_WORKER} : aq_control[i] = << >>
       /\ UNCHANGED <<active, end, aq, processing_time, cpu_time>>

\* A record returned as it is: same number, nothing posted, no end touched.
DispatchAsIsStep(i) ==
    (/\ DispatchPops(i)
     /\ fr_channel_service_aq_asis(Head(aq_control[i]).signal))
    => /\ out'.op = "service_aq"
       /\ out'.event = Head(aq_control[i]).signal
       /\ aq_control'[1 - i] = aq_control[1 - i]
       /\ UNCHANGED <<active, end, aq>>

\* C19: service_aq pops at most one record per call and returns EMPTY,
\* changing nothing, when the control queue is empty; ERROR, DATA_TO_WORKER,
\* DATA_FROM_WORKER, OPEN and CLOSE records are returned as the event with the
\* same number and nothing is posted; DATA_DONE_WORKER is returned as
\* DATA_READY_RECEIVER and WORKER_SLEEPING as NOOP; records are dispatched in
\* the order they were posted.
DispatcherMappingStep ==
    /\ DispatchEmptyStep
    /\ \A i \in {TO_WORKER, FROM_WORKER} :
           /\ ControlQueueFifoStep(i)
           /\ DispatchAsIsStep(i)
           /\ DispatchPops(i) =>
                  LET cs == Head(aq_control[i]).signal IN
                  /\ out'.op = "service_aq"
                  /\ cs = FR_CHANNEL_SIGNAL_DATA_DONE_WORKER =>
                         out'.event = FR_CHANNEL_DATA_READY_RECEIVER
                  /\ cs = FR_CHANNEL_SIGNAL_WORKER_SLEEPING =>
                         out'.event = FR_CHANNEL_NOOP

DispatcherMapping == [][DispatcherMappingStep]_vars

\* C19, amended: as above, but for a DATA_DONE_WORKER or WORKER_SLEEPING record
\* whose ack differs from to_worker.sequence the dispatcher returns ERROR in
\* place of the mapped event when the control send of the re-signal fails.
DispatcherMappingUnlessSendFailsStep ==
    /\ DispatchEmptyStep
    /\ \A i \in {TO_WORKER, FROM_WORKER} :
           /\ ControlQueueFifoStep(i)
           /\ DispatchAsIsStep(i)
           /\ DispatchPops(i) =>
                  LET cc == Head(aq_control[i])
                      failed == /\ i = FROM_WORKER
                                /\ cc.ack # end[TO_WORKER].sequence
                                /\ fr_control_message_send_rcode(
                                       aq_control[TO_WORKER], CONTROL_QUEUE_SIZE) < 0
                  IN
                  /\ out'.op = "service_aq"
                  /\ cc.signal = FR_CHANNEL_SIGNAL_DATA_DONE_WORKER =>
                         out'.event = IF failed THEN FR_CHANNEL_ERROR
                                      ELSE FR_CHANNEL_DATA_READY_RECEIVER
                  /\ cc.signal = FR_CHANNEL_SIGNAL_WORKER_SLEEPING =>
                         out'.event = IF failed THEN FR_CHANNEL_ERROR
                                      ELSE FR_CHANNEL_NOOP

DispatcherMappingUnlessSendFails == [][DispatcherMappingUnlessSendFailsStep]_vars

\* The master has dispatched WORKER_SLEEPING as NOOP, ahead of the worker's
\* CLOSE that was posted behind it, with the master's own CLOSE still queued
\* for the worker.
SleepingDispatchedBeforeClose ==
    /\ out.op = "service_aq"
    /\ out.event = FR_CHANNEL_NOOP
    /\ hist.sleeps = 1
    /\ aq_control[FROM_WORKER] # << >>
    /\ Head(aq_control[FROM_WORKER]).signal = FR_CHANNEL_SIGNAL_CLOSE
    /\ aq_control[TO_WORKER] # << >>

\* Endpoint i emits a data signal: fr_channel_data_ready counts it, in a call
\* of send_request, send_reply or service_aq.
EmitsSignal(i) ==
    /\ end'[i].num_signals = end[i].num_signals + 1
    /\ out'.op \in {"send_request", "send_reply", "service_aq"}

\* The `when` handed to fr_channel_data_ready by the caller that emits for
\* endpoint i: the message's timestamp in send_request and send_reply, the
\* dispatcher's own argument in the re-signal.
EmitWhen(i) ==
    IF i = FROM_WORKER THEN wcd.when
    ELSE IF mpc \in {"sr_pushed", "sr_signal"} THEN mcd.when
    ELSE now

\* The signal an emission of endpoint i posts a record for.
EmitSignals(i) ==
    IF i = TO_WORKER THEN {FR_CHANNEL_SIGNAL_DATA_TO_WORKER}
    ELSE {FR_CHANNEL_SIGNAL_DATA_FROM_WORKER, FR_CHANNEL_SIGNAL_DATA_DONE_WORKER}

\* C20: every emission of a data signal by an endpoint (from send_request,
\* send_reply or the dispatcher's re-signal) sets the endpoint's
\* last_sent_signal to `when`, sets sequence_at_last_signal to the endpoint's
\* current sequence, increases num_signals by 1, and posts one control record
\* whose ack field is the endpoint's current ack.
EmissionBookkeepingStep ==
    \A i \in {TO_WORKER, FROM_WORKER} :
        EmitsSignal(i) =>
            /\ end'[i].last_sent_signal = EmitWhen(i)
            /\ end'[i].sequence_at_last_signal = end'[i].sequence
            /\ \E which \in EmitSignals(i) :
                   aq_control'[i] = Append(aq_control[i],
                                           fr_channel_control_t(which, end'[i].ack))

EmissionBookkeeping == [][EmissionBookkeepingStep]_vars

\* A call made for endpoint i tries to post a control record and the send
\* fails: send_request (channel.c:290, 314), the dispatcher's re-signal
\* (channel.c:619) for the master; send_reply (channel.c:461, 493) and
\* worker_sleeping (channel.c:527) for the worker.
ControlSendFails(i) ==
    /\ fr_control_message_send_rcode(aq_control[i], CONTROL_QUEUE_SIZE) < 0
    /\ IF i = TO_WORKER
       THEN \/ mpc = "sr_signal" /\ mpc' = "idle"
            \/ /\ mpc = "sr_pushed"
               /\ mpc' = "idle"
               /\ fr_channel_send_request_end(end[TO_WORKER], mcd).num_outstanding <= 1
            \/ /\ MasterDispatchesWorkerSignal
               /\ fr_channel_service_aq_behind(Head(aq_control[FROM_WORKER]).ack,
                                               end[TO_WORKER])
       ELSE \/ /\ wpc = "rp_decide"
               /\ wpc' = "idle"
               /\ ~(/\ end[FROM_WORKER].num_outstanding # 0
                    /\ fr_channel_send_reply_skip(end[FROM_WORKER], end[TO_WORKER],
                                                  wcd.when))
            \/ hist'.sleeps = hist.sleeps + 1

\* The failure as the caller sees it.
ControlFailureReturned ==
    IF out'.op = "service_aq" THEN out'.event = FR_CHANNEL_ERROR ELSE out'.ret < 0

\* C21: when posting a control record fails because the peer's control queue is
\* full, the failure is returned to the caller of send_request, send_reply or
\* worker_sleeping (as ERROR from the dispatcher's re-signal), and the sending
\* endpoint's num_signals is not increased by the failed attempt.
ControlFailureNotCountedStep ==
    \A i \in {TO_WORKER, FROM_WORKER} :
        ControlSendFails(i) =>
            /\ ControlFailureReturned
            /\ aq_control'[i] = aq_control[i]
            /\ end'[i].num_signals = end[i].num_signals

ControlFailureNotCounted == [][ControlFailureNotCountedStep]_vars

\* A step of one of the worker thread's operations: recv_request, send_reply,
\* worker_sleeping, worker_ack_close.
WorkerOpStep ==
    \/ wpc' # wpc
    \/ /\ out' # out
       /\ out'.op \in {"recv_request", "send_reply", "worker_sleeping",
                       "worker_ack_close"}

\* A step of one of the master thread's operations: send_request, recv_reply,
\* the re-signal of service_aq, signal_worker_close.
MasterOpStep ==
    \/ mpc' # mpc
    \/ /\ out' # out
       /\ out'.op \in {"send_request", "recv_reply", "signal_worker_close"}
    \/ MasterDispatchesWorkerSignal

\* The worker's step reads the master's ack: the test of channel.c:485, reached
\* when the worker still holds a request, comes out differently for another
\* value that the master's recv_reply (channel.c:359) can have written.
WorkerReadsMasterAck ==
    /\ wpc = "rp_decide"
    /\ end[FROM_WORKER].num_outstanding # 0
    /\ \E a \in 0 .. end[TO_WORKER].sequence :
           fr_channel_send_reply_skip(end[FROM_WORKER],
                                      [end[TO_WORKER] EXCEPT !.ack = a], wcd.when)
           # fr_channel_send_reply_skip(end[FROM_WORKER], end[TO_WORKER], wcd.when)

\* C22: every operation run by the worker thread reads and writes only
\* end[FROM_WORKER] and the queues, and every operation run by the master
\* thread reads and writes only end[TO_WORKER], the channel's timing fields and
\* the queues; no other field is read by one thread while the other writes it.
ThreadConfinementStep ==
    /\ WorkerOpStep =>
           /\ end'[TO_WORKER] = end[TO_WORKER]
           /\ UNCHANGED <<active, processing_time, cpu_time>>
           /\ ~WorkerReadsMasterAck
    /\ MasterOpStep =>
           /\ end'[FROM_WORKER] = end[FROM_WORKER]
           /\ active' = active

ThreadConfinement == [][ThreadConfinementStep]_vars

\* The data queue q holds exactly the messages numbered from + 1 .. to, oldest
\* first.
HoldsConsecutive(q, from, to) ==
    /\ Len(q) = to - from
    /\ \A k \in 1 .. Len(q) : q[k].sequence = from + k

\* C23: whenever neither thread is inside an operation, the to-worker data
\* queue holds end[TO_WORKER].sequence - end[FROM_WORKER].ack messages and the
\* from-worker data queue end[FROM_WORKER].sequence - end[TO_WORKER].ack; both
\* numbers are between 0 and ATOMIC_QUEUE_SIZE, and the queued messages carry
\* the consecutive sequence numbers peer.ack + 1 .. sequence in order.
QueueContent ==
    (mpc = "idle" /\ wpc = "idle") =>
        /\ HoldsConsecutive(aq[TO_WORKER], end[FROM_WORKER].ack, end[TO_WORKER].sequence)
        /\ HoldsConsecutive(aq[FROM_WORKER], end[TO_WORKER].ack,
                            end[FROM_WORKER].sequence)
        /\ \A e \in {TO_WORKER, FROM_WORKER} :
               Len(aq[e]) \in 0 .. ATOMIC_QUEUE_SIZE

\* Both threads are outside every operation; request 3 waits in the to-worker
\* queue and the reply to request 2 in the from-worker queue.
BothQueuesHold ==
    /\ mpc = "idle"
    /\ wpc = "idle"
    /\ end[TO_WORKER].sequence = 3
    /\ end[FROM_WORKER].ack = 2
    /\ Len(aq[TO_WORKER]) = 1
    /\ end[FROM_WORKER].sequence = 2
    /\ end[TO_WORKER].ack = 1
    /\ Len(aq[FROM_WORKER]) = 1

\* C24: whenever the owning thread is not inside an operation,
\* master.num_outstanding is end[TO_WORKER].sequence - end[TO_WORKER].ack and
\* worker.num_outstanding is end[FROM_WORKER].ack - end[FROM_WORKER].sequence;
\* both are at least 0 when the worker calls send_reply only while it holds an
\* unanswered request, and num_outstanding is positive whenever recv_reply
\* takes a reply (inside send_request: once the request is counted,
\* channel.c:284) and whenever send_reply pushes one.
OutstandingIdentitiesStep ==
    /\ mpc' = "idle" =>
           /\ end'[TO_WORKER].num_outstanding =
                  end'[TO_WORKER].sequence - end'[TO_WORKER].ack
           /\ end'[TO_WORKER].num_outstanding >= 0
    /\ wpc' = "idle" =>
           /\ end'[FROM_WORKER].num_outstanding =
                  end'[FROM_WORKER].ack - end'[FROM_WORKER].sequence
           /\ end'[FROM_WORKER].num_outstanding >= 0
    /\ (/\ aq[FROM_WORKER] # << >>
        /\ aq'[FROM_WORKER] = Tail(aq[FROM_WORKER])) =>
           (IF mpc = "sr_pushed"
            THEN fr_channel_send_request_end(end[TO_WORKER], mcd)
            ELSE end[TO_WORKER]).num_outstanding > 0
    /\ Len(aq'[FROM_WORKER]) = Len(aq[FROM_WORKER]) + 1 =>
           end[FROM_WORKER].num_outstanding > 0

OutstandingIdentities == [][OutstandingIdentitiesStep]_vars

\* Both threads are outside every operation; the master waits for two replies
\* and the worker holds one unanswered request, having taken a reply and a
\* request out of the queues.
BothOutstanding ==
    /\ mpc = "idle"
    /\ wpc = "idle"
    /\ end[TO_WORKER].num_outstanding = 2
    /\ end[TO_WORKER].ack = 1
    /\ end[FROM_WORKER].num_outstanding = 1
    /\ end[FROM_WORKER].sequence = 1

====
